---- MODULE Spec2Model ----
(***************************************************************************)
(* Model of app/entrypoints/twitter.py: the scheduler entrypoint that      *)
(* polls Twitter mentions for every twitter-enabled agent, hands each      *)
(* mention to the agent, replies, and accounts the cycle against the       *)
(* agent's quota.                                                          *)
(*                                                                         *)
(* Threads.  BlockingScheduler.start() keeps the main thread in the        *)
(* scheduler loop; the job run_twitter_agents runs on the scheduler's      *)
(* default thread-pool executor.  The worker is modelled statement group   *)
(* by statement group (one action per blocking call), the main thread by   *)
(* the interval trigger (Fire, FireSkipped) and the signal handler.        *)
(***************************************************************************)
EXTENDS Integers, Sequences, FiniteSets

\* ---------------------------------------------------------------- bounds
\* Tweet ids the platform can hand out: 1..MaxId.
MaxId == 2
\* Number of fire times of the interval trigger that are modelled.
MaxFires == 2
\* twitter_limit_daily / twitter_limit_total of the quota records.
LimitDaily == 1
LimitTotal == 2

\* ------------------------------------------------------ program constants
\* get_users_mentions(max_results=10)
max_results == 10
\* add_job(run_twitter_agents, "interval", minutes=1) leaves max_instances
\* at the scheduler's default: one running instance of the job at a time.
max_instances == 1
\* Python's None, as a last_tweet_id / since_id / newest_id value.
None == 0

\* The rows of the Agent table, in the order the query returns them.
AllAgents == <<"A", "B">>
AgentIds == {AllAgents[n] : n \in 1..Len(AllAgents)}
TweetIds == 1..MaxId

VARIABLES
    agentTable,  \* Agent rows: twitter_enabled, twitter_config
    quota,       \* AgentQuota rows
    pluginData,  \* AgentPluginData rows (agent, "twitter", "entrypoint")
    platform,    \* per agent, the mentions the platform holds (or "live": any)
    audit,       \* whether delivered is kept in this run
    delivered,   \* per agent and tweet, engine calls and replies since the start
    mainPc,      \* main thread: "running", "shutdown", "unwinding", "exited"
    exitStatus,  \* process exit status once mainPc = "exited", else -1
    ticksAtSignal, \* value of ticks when the first signal was handled, else -1
    instances,   \* executions of run_twitter_agents in flight
    fires,       \* fire times of the interval trigger that have come due
    ticks,       \* executions of run_twitter_agents started so far
    pc,          \* position of the worker inside run_twitter_agents
    agents,      \* result of the agent query of this execution
    i,           \* index in agents of the next agent of the for loop
    agent,       \* loop variable of "for agent in agents"
    since_id,    \* local since_id
    mentions,    \* local mentions: [data, meta]
    k,           \* index in mentions.data of the mention being processed
    outcome,     \* per agent, how its cycle of this execution ended
    visited,     \* agents whose loop body was entered in this execution
    calls,       \* calls made and log lines written by the current cycle
    tickResult,  \* how the last execution ended: "returned" or "raised"
    before       \* quota and pluginData as they were when the cycle began

vars == <<agentTable, quota, pluginData, platform, audit, delivered, mainPc, exitStatus, ticksAtSignal, instances, fires, ticks,
          pc, agents, i, agent, since_id, mentions, k, outcome, visited,
          calls, tickResult, before>>

fixed == <<agentTable, platform, audit>>
store == <<fixed, quota, pluginData>>
main == <<mainPc, exitStatus, ticksAtSignal>>
locals == <<agents, i, agent, since_id, mentions, k, visited, before>>

\* ---------------------------------------------------------------- helpers
Max(S) == CHOOSE x \in S : \A y \in S : y <= x

Range(s) == {s[n] : n \in 1..Len(s)}

\* Sequences over S without repetition, of length at most n.
RECURSIVE DistinctSeqs(_, _)
DistinctSeqs(S, n) ==
    IF n = 0 \/ S = {} THEN {<<>>}
    ELSE {<<>>} \cup UNION {{<<x>> \o t : t \in DistinctSeqs(S \ {x}, n - 1)} : x \in S}

Call(op, id) == [op |-> op, id |-> id]
Log(level) == [op |-> level, id |-> None]

CallsOf(op) == {n \in 1..Len(calls) : calls[n].op = op}
Count(op) == Cardinality(CallsOf(op))

\* The local mentions before get_users_mentions has returned.
Unassigned == [data |-> <<>>, meta |-> [present |-> FALSE, newest_id |-> None]]

\* ------------------------------------------------------- quota (AgentQuota)
\* AgentQuota.has_twitter_quota: both counters strictly below their limits.
\* An agent without a quota record has no quota.
has_twitter_quota(q) ==
    /\ q.exists
    /\ q.twitter_count_daily < q.twitter_limit_daily
    /\ q.twitter_count_total < q.twitter_limit_total

\* AgentQuota.add_twitter: one unit on the daily and on the total counter.
add_twitter(q) ==
    [q EXCEPT !.twitter_count_daily = @ + 1, !.twitter_count_total = @ + 1]

\* ------------------------------------------------------------ the platform
\* What get_users_mentions(since_id=sid, max_results=10) can answer: nothing,
\* or up to max_results tweets newer than sid in the platform's order, with
\* meta absent (or empty), meta without "newest_id", or meta whose newest_id
\* is the newest returned tweet.
Newer(sid) == {t \in TweetIds : sid = None \/ t > sid}

Metas(d) ==
    IF d = <<>> THEN {[present |-> TRUE, newest_id |-> None]}
    ELSE {[present |-> FALSE, newest_id |-> None],
          [present |-> TRUE, newest_id |-> None],
          [present |-> TRUE, newest_id |-> Max(Range(d))]}

Responses(sid) ==
    UNION {{[data |-> d, meta |-> m] : m \in Metas(d)} :
        d \in DistinctSeqs(Newer(sid), IF max_results < MaxId THEN max_results ELSE MaxId)}

\* A live platform: mentions come and go between fetches, any answer is possible.
Live == [frozen |-> FALSE, timeline |-> <<>>, meta |-> "newest"]

\* A platform whose mentions of the agent do not change: timeline lists them
\* in the order the platform returns them, meta says what meta it sends along.
Frozen == {[frozen |-> TRUE, timeline |-> t, meta |-> m] :
              t \in DistinctSeqs(TweetIds, MaxId), m \in {"missing", "bare", "newest"}}

Prefix(s, n) == SubSeq(s, 1, IF Len(s) < n THEN Len(s) ELSE n)

\* The answer of platform p to get_users_mentions(since_id=sid).
Answers(p, sid) ==
    IF ~p.frozen THEN Responses(sid)
    ELSE LET d == Prefix(SelectSeq(p.timeline, LAMBDA t : t \in Newer(sid)), max_results)
         IN {[data |-> d,
              meta |-> IF d = <<>> \/ p.meta = "bare" THEN [present |-> TRUE, newest_id |-> None]
                       ELSE IF p.meta = "missing" THEN [present |-> FALSE, newest_id |-> None]
                       ELSE [present |-> TRUE, newest_id |-> Max(Range(d))]]}

\* tweet_fields=["created_at", "author_id", "text"]: what a mention carries.
AuthorOf(t) == IF t % 2 = 1 THEN "alice" ELSE "bob"
TextOf(t) == <<"text of", t>>
Mention(t) == [id |-> t, author_id |-> AuthorOf(t), text |-> TextOf(t)]

\* --------------------------------------------------------- initial state
\* Quota rows at the start of a day: nothing used today, and of the total
\* nothing, all but one unit, or all of it.
QuotaRow(ld, ct, lt) ==
    [exists |-> TRUE, twitter_count_daily |-> 0, twitter_limit_daily |-> ld,
     twitter_count_total |-> ct, twitter_limit_total |-> lt]

\* What AgentQuota.get stands for when the agent has no quota record.
NoQuotaRow == [QuotaRow(LimitDaily, 0, LimitTotal) EXCEPT !.exists = FALSE]

QuotaRows ==
    {QuotaRow(LimitDaily, ct, LimitTotal) : ct \in {0, LimitTotal - 1, LimitTotal}}
        \cup {NoQuotaRow}

\* A row that is not enabled is left out by the query whatever its config, so
\* one such row (with a usable config) stands for all of them.
AgentRows ==
    [twitter_enabled : {TRUE}, twitter_config : {"None", "empty", "valid"}]
        \cup {[twitter_enabled |-> FALSE, twitter_config |-> "valid"]}

NoRow == [exists |-> FALSE, last_tweet_id |-> None]

NothingDelivered ==
    [a \in AgentIds |-> [t \in TweetIds |-> [execute_agent |-> 0, create_tweet |-> 0]]]

\* delivered after one more call op of agent a for tweet t, in an audited run.
Deliver(a, t, op) ==
    IF audit THEN [delivered EXCEPT ![a][t][op] = @ + 1] ELSE delivered

\* The process after scheduler.start(), no signal received, no job run yet.
Started ==
    /\ pluginData = [a \in AgentIds |-> NoRow]
    /\ delivered = NothingDelivered
    /\ mainPc = "running"
    /\ exitStatus = -1
    /\ ticksAtSignal = -1
    /\ instances = 0
    /\ fires = 0
    /\ ticks = 0
    /\ pc = "idle"
    /\ agents = <<>>
    /\ i = 1
    /\ agent = AllAgents[1]
    /\ since_id = None
    /\ mentions = Unassigned
    /\ k = 0
    /\ outcome = [a \in AgentIds |-> "none"]
    /\ visited = <<>>
    /\ calls = <<>>
    /\ tickResult = "none"
    /\ before = [quota |-> quota, pluginData |-> pluginData]

Init ==
    /\ agentTable \in [AgentIds -> AgentRows]
    /\ quota \in [AgentIds -> QuotaRows]
    /\ platform = [a \in AgentIds |-> Live]
    /\ audit = FALSE
    /\ Started

\* Every agent enabled with credentials and with quota for more than one
\* cycle, against a platform whose mentions do not change; deliveries audited.
InitFrozen ==
    /\ agentTable = [a \in AgentIds |-> [twitter_enabled |-> TRUE, twitter_config |-> "valid"]]
    /\ quota = [a \in AgentIds |-> QuotaRow(LimitDaily + 1, 0, LimitTotal + 1)]
    /\ platform \in [AgentIds -> Frozen]
    /\ audit = TRUE
    /\ Started

\* ------------------------------------------------- control flow of a cycle
\* Fall through to the next statement group p, having made the calls evs.
Goto(p, evs) ==
    /\ pc' = p
    /\ calls' = calls \o evs
    /\ UNCHANGED <<outcome, instances, tickResult>>

\* "continue": the cycle of the current agent ends with outcome o.
Continue(o, evs) ==
    /\ pc' = "loop"
    /\ outcome' = [outcome EXCEPT ![agent] = o]
    /\ calls' = calls \o evs
    /\ UNCHANGED <<instances, tickResult>>

\* The exception leaves run_twitter_agents instead of being caught.
ExceptReraise(evs) ==
    /\ pc' = "idle"
    /\ outcome' = [outcome EXCEPT ![agent] = "failed"]
    /\ calls' = calls \o evs
    /\ instances' = instances - 1
    /\ tickResult' = "raised"

\* except Exception: logger.error(...); continue
Except(evs) == Continue("failed", evs \o <<Log("error")>>)

\* ------------------------------------------------------- run_twitter_agents
\* with Session(engine) as db: agents = db.exec(select(Agent).where(...)).all()
QueryAgents ==
    /\ pc = "query"
    /\ \/ /\ agents' = SelectSeq(AllAgents,
                LAMBDA a : /\ agentTable[a].twitter_enabled
                           /\ agentTable[a].twitter_config # "None")
          /\ i' = 1
          /\ pc' = "loop"
          /\ UNCHANGED <<instances, tickResult>>
       \/ /\ pc' = "idle"
          /\ instances' = instances - 1
          /\ tickResult' = "raised"
          /\ UNCHANGED <<agents, i>>
    /\ UNCHANGED <<store, delivered, main, fires, ticks, agent, since_id, mentions, k,
                   outcome, visited, calls, before>>

\* for agent in agents: try:
ForAgent ==
    /\ pc = "loop"
    /\ i <= Len(agents)
    /\ agent' = agents[i]
    /\ i' = i + 1
    /\ visited' = Append(visited, agents[i])
    /\ outcome' = [outcome EXCEPT ![agents[i]] = "running"]
    /\ calls' = <<>>
    /\ before' = [quota |-> quota, pluginData |-> pluginData]
    /\ since_id' = None
    /\ mentions' = Unassigned
    /\ k' = 0
    /\ pc' = "check_quota"
    /\ UNCHANGED <<store, delivered, main, instances, fires, ticks, agents, tickResult>>

\* The for loop is exhausted: run_twitter_agents returns.
Return ==
    /\ pc = "loop"
    /\ i > Len(agents)
    /\ pc' = "idle"
    /\ instances' = instances - 1
    /\ tickResult' = "returned"
    /\ UNCHANGED <<store, delivered, main, fires, ticks, locals, outcome, calls>>

\* The quota check placed after the client is built.
CheckQuotaLate ==
    /\ pc = "check_quota"
    /\ \/ Except(<<Call("AgentQuota.get", None)>>)
       \/ /\ ~has_twitter_quota(quota[agent])
          /\ Continue("skipped", <<Call("AgentQuota.get", None),
                                   Call("create_twitter_client", None), Call("get_me", None),
                                   Call("has_twitter_quota", None), Log("warning")>>)
       \/ /\ has_twitter_quota(quota[agent])
          /\ Goto("build_client", <<Call("AgentQuota.get", None),
                                    Call("has_twitter_quota", None)>>)
    /\ UNCHANGED <<store, delivered, main, fires, ticks, locals>>

\* The warning without its "continue".
CheckQuotaNoContinue ==
    /\ pc = "check_quota"
    /\ \/ Except(<<Call("AgentQuota.get", None)>>)
       \/ /\ ~has_twitter_quota(quota[agent])
          /\ Goto("build_client", <<Call("AgentQuota.get", None),
                                    Call("has_twitter_quota", None), Log("warning")>>)
       \/ /\ has_twitter_quota(quota[agent])
          /\ Goto("build_client", <<Call("AgentQuota.get", None),
                                    Call("has_twitter_quota", None)>>)
    /\ UNCHANGED <<store, delivered, main, fires, ticks, locals>>

\* quota = AgentQuota.get(...); if not quota.has_twitter_quota(db): warning; continue
CheckQuota ==
    /\ pc = "check_quota"
    /\ \/ Except(<<Call("AgentQuota.get", None)>>)
       \/ /\ ~has_twitter_quota(quota[agent])
          /\ Continue("skipped", <<Call("AgentQuota.get", None),
                                   Call("has_twitter_quota", None), Log("warning")>>)
       \/ /\ has_twitter_quota(quota[agent])
          /\ Goto("build_client", <<Call("AgentQuota.get", None),
                                    Call("has_twitter_quota", None)>>)
    /\ UNCHANGED <<store, delivered, main, fires, ticks, locals>>

\* The error for an unresolved identity without its "continue".
BuildClientNoContinue ==
    /\ pc = "build_client"
    /\ \/ /\ agentTable[agent].twitter_config # "valid"
          /\ Continue("no_config", <<Log("warning")>>)
       \/ /\ agentTable[agent].twitter_config = "valid"
          /\ \/ Except(<<Call("create_twitter_client", None)>>)
             \/ Except(<<Call("create_twitter_client", None), Call("get_me", None)>>)
             \/ Goto("fetch", <<Call("create_twitter_client", None),
                                Call("get_me", None), Log("error")>>)
             \/ Goto("fetch", <<Call("create_twitter_client", None), Call("get_me", None)>>)
    /\ UNCHANGED <<store, delivered, main, fires, ticks, locals>>

\* if not agent.twitter_config: warning; continue
\* client = create_twitter_client(...); me = client.get_me(); if not me.data: error; continue
BuildClient ==
    /\ pc = "build_client"
    /\ \/ /\ agentTable[agent].twitter_config # "valid"
          /\ Continue("no_config", <<Log("warning")>>)
       \/ /\ agentTable[agent].twitter_config = "valid"
          /\ \/ Except(<<Call("create_twitter_client", None)>>)
             \/ Except(<<Call("create_twitter_client", None), Call("get_me", None)>>)
             \/ Continue("no_identity", <<Call("create_twitter_client", None),
                                          Call("get_me", None), Log("error")>>)
             \/ Goto("fetch", <<Call("create_twitter_client", None), Call("get_me", None)>>)
    /\ UNCHANGED <<store, delivered, main, fires, ticks, locals>>

\* The fetch that never passes the stored cursor.
FetchMentionsNoCursor ==
    /\ pc = "fetch"
    /\ LET sid == None
           read == Call("AgentPluginData.get", None)
           fetch == Call("get_users_mentions", sid)
       IN \/ /\ Except(<<read>>)
             /\ UNCHANGED <<since_id, mentions>>
          \/ /\ since_id' = sid
             /\ \/ /\ Except(<<read, fetch>>)
                   /\ UNCHANGED mentions
                \/ \E resp \in Answers(platform[agent], sid) :
                      /\ mentions' = resp
                      /\ IF resp.data = <<>>
                         THEN Continue("no_mentions", <<read, fetch, Log("info")>>)
                         ELSE Goto("advance", <<read, fetch>>)
    /\ UNCHANGED <<store, delivered, main, fires, ticks, agents, i, agent, k, visited, before>>

\* The fetch without the "if not mentions.data" exit.
FetchMentionsUnchecked ==
    /\ pc = "fetch"
    /\ LET row == pluginData[agent]
           sid == IF row.exists THEN row.last_tweet_id ELSE None
           read == Call("AgentPluginData.get", None)
           fetch == Call("get_users_mentions", sid)
       IN /\ since_id' = sid
          /\ \E resp \in Answers(platform[agent], sid) :
                /\ mentions' = resp
                /\ Goto("advance", <<read, fetch>>)
    /\ UNCHANGED <<store, delivered, main, fires, ticks, agents, i, agent, k, visited, before>>

\* plugin_data = AgentPluginData.get(...); since_id = ...;
\* mentions = client.get_users_mentions(...); if not mentions.data: info; continue
FetchMentions ==
    /\ pc = "fetch"
    /\ LET row == pluginData[agent]
           sid == IF row.exists THEN row.last_tweet_id ELSE None
           read == Call("AgentPluginData.get", None)
           fetch == Call("get_users_mentions", sid)
       IN \/ /\ Except(<<read>>)
             /\ UNCHANGED <<since_id, mentions>>
          \/ /\ since_id' = sid
             /\ \/ /\ Except(<<read, fetch>>)
                   /\ UNCHANGED mentions
                \/ \E resp \in Answers(platform[agent], sid) :
                      /\ mentions' = resp
                      /\ IF resp.data = <<>>
                         THEN Continue("no_mentions", <<read, fetch, Log("info")>>)
                         ELSE Goto("advance", <<read, fetch>>)
    /\ UNCHANGED <<store, delivered, main, fires, ticks, agents, i, agent, k, visited, before>>

\* The id of the last mention of the list, taken for the newest one.
last_mention_id(m) == m.data[Len(m.data)]

\* last_tweet_id = mentions.meta.get("newest_id")
last_tweet_id(m) == m.meta.newest_id

\* The cursor write left for after the mentions are processed.
AdvanceCursorDeferred ==
    /\ pc = "advance"
    /\ mentions.meta.present
    /\ k' = 1
    /\ Goto("engine", <<>>)
    /\ UNCHANGED <<store, delivered, main, fires, ticks, agents, i, agent,
                   since_id, mentions, visited, before>>

\* if mentions.meta: last_tweet_id = mentions.meta.get("newest_id");
\*     AgentPluginData(..., data={"last_tweet_id": last_tweet_id}).save(db)
\* else: raise Exception(...)
AdvanceCursor ==
    /\ pc = "advance"
    /\ \/ /\ ~mentions.meta.present
          /\ Except(<<>>)
          /\ UNCHANGED <<pluginData, k>>
       \/ /\ mentions.meta.present
          /\ LET save == Call("save", last_tweet_id(mentions))
             IN \/ /\ pluginData' = [pluginData EXCEPT ![agent] =
                                        [exists |-> TRUE, last_tweet_id |-> last_tweet_id(mentions)]]
                   /\ k' = 1
                   /\ Goto("engine", <<save>>)
                \/ /\ Except(<<save>>)
                   /\ UNCHANGED <<pluginData, k>>
    /\ UNCHANGED <<fixed, delivered, quota, main, fires, ticks, agents, i, agent,
                   since_id, mentions, visited, before>>

\* The thread id with its parts in the wrong order.
thread_id_swapped(a, mention) == <<mention.author_id, "-twitter-", a>>

\* thread_id = f"{agent.id}-twitter-{mention.author_id}"
thread_id(a, mention) == <<a, "-twitter-", mention.author_id>>

\* execute_agent(agent.id, mention.text, thread_id)
EngineCall(a, mention) ==
    [op |-> "execute_agent", id |-> mention.id, agent |-> a,
     text |-> mention.text, thread_id |-> thread_id(a, mention)]

\* A failing execute_agent caught per mention: the loop goes on.
CallEngineIsolated ==
    /\ pc = "engine"
    /\ LET mention == Mention(mentions.data[k])
       IN \/ /\ Goto("reply", <<EngineCall(agent, mention)>>)
             /\ UNCHANGED k
          \/ /\ k' = k + 1
             /\ Goto(IF k < Len(mentions.data) THEN "engine" ELSE "consume",
                     <<EngineCall(agent, mention), Log("error")>>)
    /\ delivered' = Deliver(agent, mentions.data[k], "execute_agent")
    /\ UNCHANGED <<store, main, fires, ticks, agents, i, agent, since_id,
                   mentions, visited, before>>

\* for mention in mentions.data: response = execute_agent(agent.id, mention.text, thread_id)
CallEngine ==
    /\ pc = "engine"
    /\ LET mention == Mention(mentions.data[k])
       IN \/ Goto("reply", <<EngineCall(agent, mention)>>)
          \/ Except(<<EngineCall(agent, mention)>>)
    /\ delivered' = Deliver(agent, mentions.data[k], "execute_agent")
    /\ UNCHANGED <<store, main, fires, ticks, locals>>

\* The quota update inside the mention loop: reached after the first reply.
PostReplyThenConsume ==
    /\ pc = "reply"
    /\ LET mention == Mention(mentions.data[k])
       IN \/ /\ k' = k + 1
             /\ Goto("consume", <<Call("create_tweet", mention.id)>>)
          \/ /\ Except(<<Call("create_tweet", mention.id)>>)
             /\ UNCHANGED k
    /\ delivered' = Deliver(agent, mentions.data[k], "create_tweet")
    /\ UNCHANGED <<store, main, fires, ticks, agents, i, agent, since_id,
                   mentions, visited, before>>

\* client.create_tweet(text="\n".join(response), in_reply_to_tweet_id=mention.id)
PostReply ==
    /\ pc = "reply"
    /\ LET mention == Mention(mentions.data[k])
       IN \/ /\ k' = k + 1
             /\ Goto(IF k < Len(mentions.data) THEN "engine" ELSE "consume",
                     <<Call("create_tweet", mention.id)>>)
          \/ /\ Except(<<Call("create_tweet", mention.id)>>)
             /\ UNCHANGED k
    /\ delivered' = Deliver(agent, mentions.data[k], "create_tweet")
    /\ UNCHANGED <<store, main, fires, ticks, agents, i, agent, since_id,
                   mentions, visited, before>>

\* The quota update applied to every quota row instead of the agent's own.
ConsumeQuotaAll ==
    /\ pc = "consume"
    /\ \/ /\ quota' = [a \in AgentIds |-> add_twitter(quota[a])]
          /\ Continue("done", <<Call("add_twitter", None)>>)
       \/ /\ Except(<<Call("add_twitter", None)>>)
          /\ UNCHANGED quota
    /\ UNCHANGED <<fixed, delivered, pluginData, main, fires, ticks, locals>>

\* quota.add_twitter(db)
ConsumeQuota ==
    /\ pc = "consume"
    /\ \/ /\ quota' = [quota EXCEPT ![agent] = add_twitter(@)]
          /\ Continue("done", <<Call("add_twitter", None)>>)
       \/ /\ Except(<<Call("add_twitter", None)>>)
          /\ UNCHANGED quota
    /\ UNCHANGED <<fixed, delivered, pluginData, main, fires, ticks, locals>>

\* ------------------------------------------------------------ the scheduler
\* The job submitted whether or not an instance of it is running.
FireOverlapping ==
    /\ mainPc = "running"
    /\ fires < MaxFires
    /\ fires' = fires + 1
    /\ ticks' = ticks + 1
    /\ instances' = instances + 1
    /\ pc' = "query"
    /\ agents' = <<>>
    /\ i' = 1
    /\ visited' = <<>>
    /\ calls' = <<>>
    /\ outcome' = [a \in AgentIds |-> "none"]
    /\ tickResult' = "none"
    /\ since_id' = None
    /\ mentions' = Unassigned
    /\ k' = 0
    /\ UNCHANGED <<store, delivered, main, agent, before>>

\* The interval trigger comes due and the job is submitted to the executor.
Fire ==
    /\ mainPc = "running"
    /\ fires < MaxFires
    /\ instances < max_instances
    /\ fires' = fires + 1
    /\ ticks' = ticks + 1
    /\ instances' = instances + 1
    /\ pc' = "query"
    /\ agents' = <<>>
    /\ i' = 1
    /\ visited' = <<>>
    /\ calls' = <<>>
    /\ outcome' = [a \in AgentIds |-> "none"]
    /\ tickResult' = "none"
    /\ since_id' = None
    /\ mentions' = Unassigned
    /\ k' = 0
    /\ UNCHANGED <<store, delivered, main, agent, before>>

\* The trigger comes due while the job still runs: the run is skipped
\* ("maximum number of running instances reached").
FireSkipped ==
    /\ mainPc = "running"
    /\ fires < MaxFires
    /\ instances >= max_instances
    /\ fires' = fires + 1
    /\ UNCHANGED <<store, delivered, main, instances, ticks, pc, locals, outcome, calls, tickResult>>

\* signal_handler, first delivery: scheduler.shutdown() marks the scheduler
\* stopped and waits for the executor's running job.
Signal ==
    /\ mainPc = "running"
    /\ mainPc' = "shutdown"
    /\ ticksAtSignal' = ticks
    /\ UNCHANGED <<store, delivered, exitStatus, instances, fires, ticks, pc, locals,
                   outcome, calls, tickResult>>

\* scheduler.shutdown() returns; sys.exit(0); the SystemExit is caught by
\* "except (KeyboardInterrupt, SystemExit): pass" and the script ends.
ShutdownDone ==
    /\ mainPc = "shutdown"
    /\ instances = 0
    /\ mainPc' = "exited"
    /\ exitStatus' = 0
    /\ UNCHANGED <<store, delivered, ticksAtSignal, instances, fires, ticks, pc, locals, outcome, calls, tickResult>>

\* signal_handler, delivered again while the first scheduler.shutdown() is
\* still waiting for the running job: the handler runs nested in the main
\* thread, and shutdown() on a scheduler already marked stopped raises
\* SchedulerNotRunningError, which is no SystemExit: it leaves the first
\* handler and scheduler.start() uncaught.
SignalAgain ==
    /\ mainPc = "shutdown"
    /\ instances > 0
    /\ mainPc' = "unwinding"
    /\ UNCHANGED <<store, delivered, exitStatus, ticksAtSignal, instances, fires, ticks, pc, locals,
                   outcome, calls, tickResult>>

\* The uncaught exception ends the script; the interpreter joins the worker
\* thread and exits with status 1.
Unwind ==
    /\ mainPc = "unwinding"
    /\ instances = 0
    /\ mainPc' = "exited"
    /\ exitStatus' = 1
    /\ UNCHANGED <<store, delivered, ticksAtSignal, instances, fires, ticks, pc, locals, outcome, calls, tickResult>>

Next ==
    \/ Fire
    \/ FireSkipped
    \/ QueryAgents
    \/ ForAgent
    \/ Return
    \/ CheckQuota
    \/ BuildClient
    \/ FetchMentions
    \/ AdvanceCursor
    \/ CallEngine
    \/ PostReply
    \/ ConsumeQuota
    \/ Signal
    \/ ShutdownDone
    \/ SignalAgain
    \/ Unwind

Spec == Init /\ [][Next]_vars

\* The same program run twice or more against an unchanging platform.
SpecFrozen == InitFrozen /\ [][Next]_vars

\* ------------------------------------------------------------- properties
Terminal == {"skipped", "no_config", "no_identity", "no_mentions", "done", "failed"}

\* The cycle of the loop variable agent has ended; calls, mentions and before
\* are still those of that cycle.
CycleEnded == pc \in {"loop", "idle"} /\ outcome[agent] \in Terminal

Stored(v) == [exists |-> TRUE, last_tweet_id |-> v]

Processing == {"execute_agent", "create_tweet"}

\* Positions in calls of the error logged for a failed engine call or reply.
ProcessingFailures ==
    {n \in 2..Len(calls) : calls[n].op = "error" /\ calls[n - 1].op \in Processing}

\* C1: a cycle that fetched mentions with a newest_id, replied to every one
\* of them and logged no error leaves the cursor at exactly that newest_id
\* and has consumed the quota exactly once, however many mentions there were.
C1_SuccessSetsCursorAndBillsOnce ==
    (/\ CycleEnded
     /\ mentions.data # <<>>
     /\ mentions.meta.present
     /\ mentions.meta.newest_id # None
     /\ Count("create_tweet") = Len(mentions.data)
     /\ Count("error") = 0)
    => /\ pluginData[agent] = Stored(mentions.meta.newest_id)
       /\ Count("add_twitter") = 1
       /\ quota[agent] = add_twitter(before.quota[agent])

C1_Witness ==
    /\ CycleEnded
    /\ Len(mentions.data) >= 2
    /\ mentions.meta.newest_id # None
    /\ mentions.data[Len(mentions.data)] # mentions.meta.newest_id
    /\ Count("create_tweet") = Len(mentions.data)
    /\ outcome[agent] = "done"
    /\ pluginData[agent] = Stored(mentions.meta.newest_id)

\* C2: when the fetch returns mentions without a newest id (meta missing, or
\* meta present without newest_id), the cycle ends with the cursor as it was,
\* an error logged, no engine call, no reply and no quota consumed.
C2_NoMarkerLeavesCursor ==
    (/\ CycleEnded
     /\ mentions.data # <<>>
     /\ (~mentions.meta.present \/ mentions.meta.newest_id = None))
    => /\ pluginData[agent] = before.pluginData[agent]
       /\ Count("error") >= 1
       /\ Count("execute_agent") = 0
       /\ Count("create_tweet") = 0
       /\ Count("add_twitter") = 0
       /\ quota[agent] = before.quota[agent]

\* C3: every engine call and every reply of a cycle comes after the save of
\* the fetched newest_id, and from the first of them on, also when the cycle
\* has stopped part-way, the stored cursor is that newest_id.
C3_CursorSavedBeforeProcessing ==
    \A n \in CallsOf("execute_agent") \cup CallsOf("create_tweet") :
        /\ \E m \in CallsOf("save") : m < n /\ calls[m].id = mentions.meta.newest_id
        /\ pluginData[agent] = Stored(mentions.meta.newest_id)

C3_Witness ==
    /\ CycleEnded
    /\ outcome[agent] = "failed"
    /\ Count("execute_agent") = 1
    /\ Count("create_tweet") = 0
    /\ mentions.meta.newest_id # None
    /\ ~before.pluginData[agent].exists
    /\ pluginData[agent] = Stored(mentions.meta.newest_id)

\* C4: once the engine call or the reply of the k-th mention has failed,
\* nothing further is called in that cycle: no later mention reaches the
\* engine or gets a reply, no mention is tried twice, the quota is not
\* consumed and the cursor stays at the value saved before processing.
C4_FailureAbortsCycle ==
    \A n \in ProcessingFailures :
        /\ n = Len(calls)
        /\ outcome[agent] = "failed"
        /\ calls[n - 1].id = mentions.data[k]
        /\ \A j \in (k + 1)..Len(mentions.data) :
              \A c \in 1..Len(calls) : calls[c].id # mentions.data[j] \/ calls[c].op \notin Processing
        /\ \A j \in 1..k : Cardinality({c \in CallsOf("execute_agent") : calls[c].id = mentions.data[j]}) = 1
        /\ \A j \in 1..k : Cardinality({c \in CallsOf("create_tweet") : calls[c].id = mentions.data[j]}) <= 1
        /\ Count("add_twitter") = 0
        /\ quota[agent] = before.quota[agent]
        /\ pluginData[agent] = Stored(mentions.meta.newest_id)

C4_Witness ==
    /\ ProcessingFailures # {}
    /\ CycleEnded
    /\ k = 2
    /\ Count("create_tweet") = 1
    /\ calls[Len(calls) - 1].op = "execute_agent"
    /\ quota[agent] = before.quota[agent]

\* C5: an execution that entered the loop returns normally with every agent
\* of the query visited once, in order, each with a terminal outcome; an
\* exception leaves run_twitter_agents only from the query, before any agent.
C5_EveryAgentReachesAnOutcome ==
    /\ visited = SubSeq(agents, 1, Len(visited))
    /\ tickResult = "raised" => visited = <<>>
    /\ (pc = "idle" /\ tickResult = "returned") =>
          /\ visited = agents
          /\ \A a \in Range(agents) : outcome[a] \in Terminal
    /\ \A n \in 1..Len(visited) :
          outcome[visited[n]] \in Terminal \/ (n = Len(visited) /\ outcome[visited[n]] = "running")

C5_Witness ==
    /\ pc = "idle"
    /\ tickResult = "returned"
    /\ visited = AllAgents
    /\ outcome["A"] = "failed"
    /\ outcome["B"] = "done"

\* The quota check of the current cycle has returned false.
QuotaDenied ==
    /\ outcome[agent] # "none"
    /\ Count("has_twitter_quota") = 1
    /\ ~has_twitter_quota(before.quota[agent])

\* C6: a cycle whose quota check returned false consists of the quota lookup,
\* the check and one warning, and nothing else: no client, no get_me, no
\* cursor read or write, no fetch, no engine call, no reply, no consumption;
\* the loop then goes on.
C6_NoQuotaNoWork ==
    QuotaDenied =>
        /\ calls = <<Call("AgentQuota.get", None), Call("has_twitter_quota", None), Log("warning")>>
        /\ outcome[agent] = "skipped"
        /\ pc \in {"loop", "idle"}
        /\ tickResult # "raised"
        /\ quota = before.quota
        /\ pluginData = before.pluginData

C6_Witness ==
    /\ visited = AllAgents
    /\ outcome["A"] = "skipped"
    /\ ~has_twitter_quota(quota["A"])
    /\ outcome["B"] = "done"

\* C7: when the fetch returns no mention the cycle is over at once, without
\* error, cursor write, engine call, reply or quota consumption.
C7_NoMentionsIsANoOp ==
    (mentions.data = <<>> /\ mentions.meta.present) =>
        /\ pc \in {"loop", "idle"}
        /\ outcome[agent] = "no_mentions"
        /\ Count("error") = 0
        /\ Count("save") = 0
        /\ Count("execute_agent") = 0
        /\ Count("create_tweet") = 0
        /\ Count("add_twitter") = 0
        /\ quota = before.quota
        /\ pluginData = before.pluginData

C7_Witness ==
    /\ mentions.data = <<>>
    /\ mentions.meta.present
    /\ Count("get_users_mentions") = 1
    /\ before.pluginData[agent].exists
    /\ outcome[agent] = "no_mentions"

\* C8: at most one execution of run_twitter_agents is in flight, and a fire
\* time that comes due during an execution starts none.
C8_TicksDoNotOverlap ==
    /\ instances <= 1
    /\ pc # "idle" <=> instances = 1
    /\ ticks <= fires

C8_Witness ==
    /\ instances = 1
    /\ ticks = 1
    /\ fires = 2
    /\ pc = "engine"

\* C9: after a signal no further execution of run_twitter_agents starts, and
\* the process exits only once the execution in flight is over (every agent
\* of its query with a terminal outcome), with status 0.
C9_SignalExitsZero ==
    /\ mainPc # "running" => ticks = ticksAtSignal
    /\ mainPc = "exited" =>
          /\ instances = 0
          /\ pc = "idle"
          /\ tickResult = "returned" => \A a \in Range(agents) : outcome[a] \in Terminal
          /\ exitStatus = 0

\* C10: no counter ever exceeds its limit; the quota is consumed only in a
\* cycle admitted with both counters strictly below their limits, and the
\* admission check leaves the counters alone.
C10_CountersWithinLimits ==
    /\ \A a \in AgentIds :
          /\ quota[a].twitter_count_daily <= quota[a].twitter_limit_daily
          /\ quota[a].twitter_count_total <= quota[a].twitter_limit_total
    /\ Count("add_twitter") >= 1 =>
          /\ before.quota[agent].twitter_count_daily < before.quota[agent].twitter_limit_daily
          /\ before.quota[agent].twitter_count_total < before.quota[agent].twitter_limit_total
    /\ pc = "build_client" => quota = before.quota

C10_Witness ==
    /\ CycleEnded
    /\ outcome[agent] = "done"
    /\ quota[agent].twitter_count_daily = quota[agent].twitter_limit_daily
    /\ quota[agent].twitter_count_total = quota[agent].twitter_limit_total
    /\ before.quota[agent].twitter_count_total = quota[agent].twitter_limit_total - 1

\* C11: against an unchanging platform, an agent whose cycle consumed quota
\* in the first execution consumes none when the execution is run again.
C11_RerunConsumesNoMore ==
    (ticks >= 2 /\ before.quota[agent].twitter_count_daily >= 1)
        => quota[agent] = before.quota[agent]

\* C15: no mention of an agent is handed to the engine more than once, and
\* none is replied to more than once, over all executions.
C15_AtMostOnceDelivery ==
    \A a \in AgentIds : \A t \in TweetIds :
        /\ delivered[a][t].execute_agent <= 1
        /\ delivered[a][t].create_tweet <= 1

\* The engine calls and replies of the current cycle, in the order made.
Processed == SelectSeq(calls, LAMBDA c : c.op \in Processing)

\* What a cycle of agent a makes of the mentions d: for each mention in fetch
\* order one engine call, then one reply to that mention.
Expected(a, d) ==
    [n \in 1..(2 * Len(d)) |->
        IF n % 2 = 1
        THEN [op |-> "execute_agent", id |-> d[(n + 1) \div 2], agent |-> a,
              text |-> TextOf(d[(n + 1) \div 2]),
              thread_id |-> <<a, "-twitter-", AuthorOf(d[(n + 1) \div 2])>>]
        ELSE [op |-> "create_tweet", id |-> d[n \div 2]]]

\* C12: the engine calls and replies of a cycle are, in fetch order, one
\* engine call per mention with the agent's id, the mention's text and the
\* thread id <agent>-twitter-<author>, each followed by one reply to that
\* mention before the next engine call; a cycle that is done has made all.
C12_MentionsInFetchOrder ==
    /\ Len(Processed) <= 2 * Len(mentions.data)
    /\ Processed = SubSeq(Expected(agent, mentions.data), 1, Len(Processed))
    /\ outcome[agent] = "done" => Len(Processed) = 2 * Len(mentions.data)

C12_Witness ==
    /\ CycleEnded
    /\ outcome[agent] = "done"
    /\ Len(mentions.data) = 2
    /\ Count("execute_agent") = 2
    /\ Count("create_tweet") = 2
    /\ Processed[1].thread_id # Processed[3].thread_id
    /\ mentions.data[1] > mentions.data[2]

\* The current cycle found no usable credentials or could not resolve the
\* agent's identity.
CredentialFailure ==
    \/ /\ outcome[agent] # "none"
       /\ pc \notin {"check_quota", "build_client"}
       /\ Count("has_twitter_quota") = 1
       /\ has_twitter_quota(before.quota[agent])
       /\ agentTable[agent].twitter_config # "valid"
    \/ \E n \in 2..Len(calls) :
          calls[n].op = "error" /\ calls[n - 1].op \in {"create_twitter_client", "get_me"}

\* C13: a cycle that finds no usable credentials, or whose client or get_me
\* fails or returns no data, ends there: cursor and quota as before, no
\* fetch, no cursor write, no engine call, no reply, no consumption.
C13_CredentialFailureMutatesNothing ==
    CredentialFailure =>
        /\ pc \in {"loop", "idle"}
        /\ outcome[agent] \in {"no_config", "no_identity", "failed"}
        /\ calls[Len(calls)].op \in {"warning", "error"}
        /\ Count("get_users_mentions") = 0
        /\ Count("save") = 0
        /\ Count("execute_agent") = 0
        /\ Count("create_tweet") = 0
        /\ Count("add_twitter") = 0
        /\ quota = before.quota
        /\ pluginData = before.pluginData

C13_Witness ==
    /\ CycleEnded
    /\ outcome[agent] = "no_identity"
    /\ Count("get_me") = 1
    /\ before.pluginData[agent].exists
    /\ pluginData = before.pluginData

\* C14: the cycle of an agent without quota record ends at the quota check:
\* no fetch, cursor write, engine call, reply or consumption, the execution
\* does not raise, and the agents after it are still visited.
C14_NoQuotaRecordFailsClosed ==
    /\ (/\ ~before.quota[agent].exists
        /\ outcome[agent] # "none"
        /\ pc # "check_quota")
       => /\ pc \in {"loop", "idle"}
          /\ outcome[agent] \in {"skipped", "failed"}
          /\ tickResult # "raised"
          /\ Count("create_twitter_client") = 0
          /\ Count("get_users_mentions") = 0
          /\ Count("save") = 0
          /\ Count("execute_agent") = 0
          /\ Count("create_tweet") = 0
          /\ Count("add_twitter") = 0
          /\ quota = before.quota
          /\ pluginData = before.pluginData
    /\ (pc = "idle" /\ tickResult = "returned" /\ \E a \in Range(agents) : ~quota[a].exists)
       => visited = agents

C14_Witness ==
    /\ pc = "idle"
    /\ tickResult = "returned"
    /\ visited = AllAgents
    /\ ~quota["A"].exists
    /\ outcome["A"] = "skipped"
    /\ outcome["B"] = "done"

\* C16: add_twitter is called at most once in a cycle and each agent has at
\* most one cycle per execution; the call comes after the cursor save and
\* after the engine call and the reply of every fetched mention, with no
\* error logged before it, and nothing but its own error log follows it.
C16_QuotaConsumedLast ==
    /\ Cardinality(Range(visited)) = Len(visited)
    /\ \A n \in CallsOf("add_twitter") :
          /\ Count("add_twitter") = 1
          /\ \E w \in CallsOf("save") : w < n
          /\ \A m \in 1..(n - 1) : calls[m].op # "error"
          /\ \A j \in 1..Len(mentions.data) :
                \E e \in CallsOf("execute_agent"), r \in CallsOf("create_tweet") :
                    /\ calls[e].id = mentions.data[j]
                    /\ calls[r].id = mentions.data[j]
                    /\ e < r
                    /\ r < n
          /\ \/ n = Len(calls)
             \/ n = Len(calls) - 1 /\ calls[Len(calls)].op = "error"

C16_Witness ==
    /\ CycleEnded
    /\ outcome[agent] = "done"
    /\ Len(mentions.data) = 2
    /\ calls[Len(calls)].op = "add_twitter"
    /\ quota[agent] # before.quota[agent]

\* The since_id a stored cursor row stands for.
StoredCursor(row) == IF row.exists THEN row.last_tweet_id ELSE None

\* C17: the since_id passed to get_users_mentions is the stored last_tweet_id
\* (none when the agent has no cursor row); the row is read once per cycle,
\* right before the one fetch.
C17_FetchUsesStoredCursor ==
    /\ Count("AgentPluginData.get") <= 1
    /\ Count("get_users_mentions") <= 1
    /\ \A n \in CallsOf("get_users_mentions") :
          /\ calls[n].id = StoredCursor(before.pluginData[agent])
          /\ since_id = StoredCursor(before.pluginData[agent])
          /\ n >= 2
          /\ calls[n - 1].op = "AgentPluginData.get"

C17_Witness ==
    /\ ticks = 2
    /\ Count("get_users_mentions") = 1
    /\ before.pluginData[agent].exists
    /\ since_id # None
    /\ since_id = before.pluginData[agent].last_tweet_id
    /\ mentions.data # <<>>

\* C18: a stored cursor is never empty, is the newest_id of the fetch of the
\* cycle that wrote it, and is never older than the cursor it replaces.
C18_CursorNeverRegresses ==
    /\ \A a \in AgentIds : pluginData[a].exists => pluginData[a].last_tweet_id # None
    /\ (outcome[agent] # "none" /\ pluginData[agent] # before.pluginData[agent]) =>
          /\ pluginData[agent] = Stored(mentions.meta.newest_id)
          /\ mentions.meta.newest_id \in Range(mentions.data)
          /\ before.pluginData[agent].exists =>
                pluginData[agent].last_tweet_id >= before.pluginData[agent].last_tweet_id

\* C19: the cycle of one agent leaves the cursor and the quota of every
\* other agent as they were when it began.
C19_OtherAgentsUntouched ==
    \A a \in AgentIds \ {agent} :
        /\ quota[a] = before.quota[a]
        /\ pluginData[a] = before.pluginData[a]

C19_Witness ==
    /\ CycleEnded
    /\ agent = "B"
    /\ outcome["A"] = "failed"
    /\ outcome["B"] = "done"
    /\ quota["B"] # before.quota["B"]
    /\ pluginData["B"] # before.pluginData["B"]
    /\ has_twitter_quota(quota["A"])
    /\ pluginData["A"].exists
====
